---- MODULE Spec2Model ----
(***************************************************************************)
(* A model of FaceApp (src/main.py): the camera thread that detects and    *)
(* recognises faces and decides attendance dispatches, the single-slot     *)
(* frame queue it shares with the display refresh and with enrollment      *)
(* sessions, the attendance workers, the enrollment sessions that write    *)
(* samples and retrain, and the OTP handlers of the update flow.           *)
(*                                                                         *)
(* Every thread is a process with a program counter; one action is one     *)
(* access to shared state (an attribute read or write, a queue call, a     *)
(* thread start).  Handlers that Kivy runs on the main thread are atomic   *)
(* with respect to each other, and run only while the main thread is not   *)
(* inside _update_texture.                                                 *)
(***************************************************************************)
EXTENDS Integers, Sequences, FiniteSets, TLC

----------------------------------------------------------------------------
(* Program constants.                                                      *)

SAMPLES_PER_USER == 10

RECOGNITION_INTERVAL == 300

ConfThreshold == 60

QueueMaxSize == 1

UpdateSampleCount == 5

CountdownFrom == 3

(* Bounds of the model.                                                    *)

MaxFrames == 3

MaxEnrollFrames == 11

MaxFaces == 1

MaxTime == 602

MaxSessions == 1

MaxOtpIssues == 3

MaxSessionFrames == 2

MaxSessionCodes == 1

MaxOverlap == 2

MaxUpdateFrames == 6

(* Inputs.                                                                 *)

\* Display names and employee ids an operator may type.  No name is a prefix
\* of another, so the order of the file names is the order of the names.
Names == {"aaron", "alice"}

EmpIds == {"E1", "E2"}

\* time.time() advances between two reads by one of these amounts.
TickSteps == {300, 301}

\* LBPH distances on both sides of the threshold of line 371.
ConfValues == {59, 60}

\* Outcomes of session.post (lines 788-816): a status code, or an exception.
PostOutcomes == {"200", "204", "301", "302", "500",
                 "timeout", "connection_error", "request_error"}

----------------------------------------------------------------------------
VARIABLES
    now,             \* the clock time.time() reads, in seconds
    stop,            \* self._stop_event
    known_faces,     \* the sample files of self._known_faces_dir
    recognizer,      \* self.recognizer: the samples it was trained on, by label
    label_map,       \* self.label_map: label -> <<name, emp_id>>
    last_seen_time,  \* self.last_seen_time
    frame_queue,     \* self.frame_queue
    cam,             \* the locals and position of _camera_loop
    frames_read,     \* number of frames capture.read() has returned
    frame_budget,    \* number of frames the camera delivers in this run
    workers,         \* the AttendanceSubmitter / GoogleFormSubmitter threads
    ui_pc,           \* position of the main thread inside _update_texture
    taken,           \* history: the last frame taken from frame_queue
    sessions,        \* the _capture_samples threads
    user_emails,     \* self.user_emails
    otp_storage,     \* self.otp_storage
    pending_names,   \* self.pending_names
    email_popups,    \* the open "Register Email" popups
    popups,          \* the open "Verify OTP" popups
    mailers,         \* the SendOTPThread threads
    issued,          \* history: the codes generated for each id, in order
    verified,        \* history: the last press of a Verify button, and whether
                     \* the press before it, for the same id, was rejected
    rejected,        \* history: the last submit a handler turned down
    session_budget,  \* number of registrations the operator makes in this run
    otp_budget,      \* number of codes generated in this run
    naming,          \* one identity on its way from the registration fields
                     \* through a sample's file name to a label-map entry
    capture_open     \* self.capture has not been released

restVars == <<session_budget, otp_budget, naming, capture_open>>

vars == <<now, stop, known_faces, recognizer, label_map, last_seen_time,
          frame_queue, cam, frames_read, frame_budget, workers, ui_pc, taken,
          sessions,
          user_emails, otp_storage, pending_names, email_popups, popups,
          mailers, issued, verified, rejected, session_budget, otp_budget,
          naming, capture_open>>

pipelineVars == <<last_seen_time, cam, frames_read, frame_budget, workers>>
modelVars    == <<known_faces, recognizer, label_map>>
otpVars      == <<user_emails, otp_storage, pending_names, email_popups,
                  popups, mailers, issued, verified, rejected, restVars>>

----------------------------------------------------------------------------
(* The identity store and training (_train_recognizer, lines 444-483).     *)

File(n, e, k) == [name |-> n, emp |-> e, seq |-> k]

NameRank(n) == IF n = "aaron" THEN 1 ELSE IF n = "alice" THEN 2 ELSE 3

EmpRank(e) == IF e = "E1" THEN 1 ELSE IF e = "E2" THEN 2 ELSE 3

\* The order sorted() puts the file names "{name}_{emp}_{seq:03d}.jpg" in.
FileLess(f, g) ==
    \/ NameRank(f.name) < NameRank(g.name)
    \/ /\ f.name = g.name
       /\ \/ EmpRank(f.emp) < EmpRank(g.emp)
          \/ f.emp = g.emp /\ f.seq < g.seq

\* sorted(os.listdir(dir)): the files in order.
SortedFiles(files) ==
    LET n == Cardinality(files)
        pos(f) == Cardinality({g \in files : FileLess(g, f)}) + 1
    IN  [i \in 1..n |-> CHOOSE f \in files : pos(f) = i]

\* The trained recognizer: image number i carries label i - 1.
TrainedOn(files) == SortedFiles(files)

\* The label map built in the same pass: one label per image (line 471-472).
LabelMapOf(rec) == [i \in 1..Len(rec) |-> <<rec[i].name, rec[i].emp>>]

\* _train_recognizer(): (recogniser, label_map) of the files present.
TrainRecognizer(files) ==
    LET rec == TrainedOn(files) IN <<rec, LabelMapOf(rec)>>

\* label_map.get(label, ("unknown", "")) of line 368.
LabelMapGet(lm, label) ==
    IF label + 1 \in DOMAIN lm THEN lm[label + 1] ELSE <<"unknown", "">>

InitialStore == {File("aaron", "E2", 0), File("alice", "E1", 0)}

----------------------------------------------------------------------------
(* The camera thread (_camera_loop, lines 330-422).                        *)

CamIdle == [pc |-> "loop", frame |-> 0, faces |-> 0, label |-> -1,
            conf |-> 0, rec |-> <<>>, lm |-> <<>>, name |-> "unknown",
            emp |-> "", t |-> 0,
            \* history of the face handled last in this frame:
            verdict |-> "none", had |-> FALSE, prev |-> 0,
            \* history: get_nowait of line 419 raised queue.Empty
            caught |-> FALSE,
            \* history: detectMultiScale raised cv2.error on this frame
            err |-> FALSE]

\* Where the loop over the detected faces goes once one face is handled.  The
\* recognizer, the label map and the label are not used again.
AfterFace(c) ==
    [c EXCEPT !.faces = c.faces - 1, !.label = -1, !.rec = <<>>, !.lm = <<>>,
              !.pc = IF c.faces - 1 > 0 THEN "predict" ELSE "qempty"]

\* Line 332, stop signal set: the loop ends.
CamExit ==
    /\ cam.pc = "loop"
    /\ stop
    /\ cam' = [cam EXCEPT !.pc = "exit"]
    /\ UNCHANGED <<now, stop, modelVars, last_seen_time, frame_queue,
                   frames_read, frame_budget, workers, ui_pc, taken, sessions,
                   otpVars>>

\* Lines 332-335: capture.read() returns a frame.  (A failed read, which is
\* every read of a released capture, is the `continue`: it changes nothing.)
CamRead ==
    /\ cam.pc = "loop"
    /\ ~stop
    /\ capture_open
    /\ frames_read < frame_budget
    /\ frames_read' = frames_read + 1
    /\ cam' = [CamIdle EXCEPT !.pc = "detect", !.frame = frames_read + 1]
    /\ UNCHANGED <<now, stop, modelVars, last_seen_time, frame_queue,
                   frame_budget, workers, ui_pc, taken, sessions, otpVars>>

\* Mutant: a cv2.error of the detector is not caught and ends the thread.
CamDetectErrorFatal ==
    /\ cam.pc = "detect"
    /\ \E err \in BOOLEAN, n \in 0..MaxFaces :
         cam' = IF err THEN [cam EXCEPT !.err = TRUE, !.pc = "exit"]
                ELSE [cam EXCEPT !.faces = n,
                                 !.pc = IF n > 0 THEN "predict" ELSE "qempty"]
    /\ UNCHANGED <<now, stop, modelVars, last_seen_time, frame_queue,
                   frames_read, frame_budget, workers, ui_pc, taken, sessions,
                   otpVars>>

\* Lines 344-350: detectMultiScale; a cv2.error counts as no face.
CamDetect ==
    /\ cam.pc = "detect"
    /\ \E err \in BOOLEAN, n \in 0..MaxFaces :
         LET faces == IF err THEN 0 ELSE n IN
         cam' = [cam EXCEPT !.faces = faces, !.err = err,
                            !.pc = IF faces > 0 THEN "predict" ELSE "qempty"]
    /\ UNCHANGED <<now, stop, modelVars, last_seen_time, frame_queue,
                   frames_read, frame_budget, workers, ui_pc, taken, sessions,
                   otpVars>>

\* Mutant: the exception of predict on an untrained recognizer is not caught
\* and ends the thread.
CamPredictUncaught ==
    /\ cam.pc = "predict"
    /\ LET c == [cam EXCEPT !.pc = "lookup", !.rec = recognizer,
                            !.verdict = "none"]
       IN  IF recognizer = <<>>
           THEN cam' = [cam EXCEPT !.pc = "exit"]
           ELSE \E l \in 0..(Len(recognizer) - 1), cf \in ConfValues :
                  cam' = [c EXCEPT !.label = l, !.conf = cf]
    /\ UNCHANGED <<now, stop, modelVars, last_seen_time, frame_queue,
                   frames_read, frame_budget, workers, ui_pc, taken, sessions,
                   otpVars>>

\* Lines 363-366: self.recognizer is read and predict is run on it.  An
\* untrained recognizer raises, which gives (-1, 1000).
CamPredict ==
    /\ cam.pc = "predict"
    /\ LET c == [cam EXCEPT !.pc = "lookup", !.rec = recognizer,
                            !.verdict = "none"]
       IN  IF recognizer = <<>>
           THEN cam' = [c EXCEPT !.label = -1, !.conf = 1000]
           ELSE \E l \in 0..(Len(recognizer) - 1), cf \in ConfValues :
                  cam' = [c EXCEPT !.label = l, !.conf = cf]
    /\ UNCHANGED <<now, stop, modelVars, last_seen_time, frame_queue,
                   frames_read, frame_budget, workers, ui_pc, taken, sessions,
                   otpVars>>

\* Lines 368-371: self.label_map is read, the clock is read, and the
\* confidence is compared with the threshold.
CamLookup ==
    /\ cam.pc = "lookup"
    /\ LET id == LabelMapGet(label_map, cam.label)
           c  == [cam EXCEPT !.lm = label_map, !.name = id[1],
                             !.emp = id[2], !.t = now]
       IN  cam' = IF cam.conf < ConfThreshold
                  THEN [c EXCEPT !.pc = "check"]
                  ELSE AfterFace([c EXCEPT !.verdict = "unknown"])
    /\ UNCHANGED <<now, stop, modelVars, last_seen_time, frame_queue,
                   frames_read, frame_budget, workers, ui_pc, taken, sessions,
                   otpVars>>

\* d[k] = v on a dict
DictSet(d, k, v) == [x \in DOMAIN d \cup {k} |-> IF x = k THEN v ELSE d[x]]

\* self.last_seen_time.get(emp_id, 0) of line 372.
LastSeen(tbl, emp) == IF emp \in DOMAIN tbl THEN tbl[emp] ELSE 0

\* Mutant: the window's last second counts as elapsed.
DispatchDecisionInclusive(tbl, emp, t) ==
    t - LastSeen(tbl, emp) >= RECOGNITION_INTERVAL

\* Mutant: an id is dispatched once and never again.
DispatchDecisionFirstOnly(tbl, emp, t) == emp \notin DOMAIN tbl

\* The test of line 373.
DispatchDecision(tbl, emp, t) == t - LastSeen(tbl, emp) > RECOGNITION_INTERVAL

\* Mutant: the table entry is not written before the thread is started.
CamCheckWriteLater ==
    /\ cam.pc = "check"
    /\ LET c == [cam EXCEPT !.had = cam.emp \in DOMAIN last_seen_time,
                            !.prev = LastSeen(last_seen_time, cam.emp)]
       IN  cam' = IF DispatchDecision(last_seen_time, cam.emp, cam.t)
                  THEN [c EXCEPT !.pc = "spawn", !.verdict = "dispatch"]
                  ELSE AfterFace([c EXCEPT !.verdict = "cooldown"])
    /\ UNCHANGED <<now, stop, modelVars, last_seen_time, frame_queue,
                   frames_read, frame_budget, workers, ui_pc, taken, sessions,
                   otpVars>>

\* Lines 372-374 and 383-385: the cooldown test; on a positive decision the
\* table entry is written.
CamCheck ==
    /\ cam.pc = "check"
    /\ LET c == [cam EXCEPT !.had = cam.emp \in DOMAIN last_seen_time,
                            !.prev = LastSeen(last_seen_time, cam.emp)]
       IN  IF DispatchDecision(last_seen_time, cam.emp, cam.t)
           THEN /\ last_seen_time' = DictSet(last_seen_time, cam.emp, cam.t)
                /\ cam' = [c EXCEPT !.pc = "spawn", !.verdict = "dispatch"]
           ELSE /\ last_seen_time' = last_seen_time
                /\ cam' = AfterFace([c EXCEPT !.verdict = "cooldown"])
    /\ UNCHANGED <<now, stop, modelVars, frame_queue, frames_read,
                   frame_budget, workers, ui_pc, taken, sessions, otpVars>>

\* Lines 375-382: the AttendanceSubmitter thread is started.
CamSpawn ==
    /\ cam.pc = "spawn"
    /\ workers' = Append(workers, [name |-> cam.name, emp |-> cam.emp,
                                   t |-> cam.t, pc |-> "attendance",
                                   posts |-> 0, outcome |-> "none",
                                   notice |-> "none", notes |-> 0])
    /\ cam' = AfterFace(cam)
    /\ UNCHANGED <<now, stop, modelVars, last_seen_time, frame_queue,
                   frames_read, frame_budget, ui_pc, taken, sessions,
                   otpVars>>

\* Mutant: the unconsumed frame is not removed before the put.
CamQueueEmptyNoDiscard ==
    /\ cam.pc = "qempty"
    /\ cam' = [cam EXCEPT !.pc = "put"]
    /\ UNCHANGED <<now, stop, modelVars, last_seen_time, frame_queue,
                   frames_read, frame_budget, workers, ui_pc, taken, sessions,
                   otpVars>>

\* Mutant: with an unconsumed frame in the slot the new frame is dropped.
CamQueueEmptyKeepOld ==
    /\ cam.pc = "qempty"
    /\ cam' = IF frame_queue # <<>> THEN CamIdle
                                    ELSE [cam EXCEPT !.pc = "put"]
    /\ UNCHANGED <<now, stop, modelVars, last_seen_time, frame_queue,
                   frames_read, frame_budget, workers, ui_pc, taken, sessions,
                   otpVars>>

\* Line 417: frame_queue.empty().
CamQueueEmpty ==
    /\ cam.pc = "qempty"
    /\ cam' = [cam EXCEPT !.pc = IF frame_queue # <<>> THEN "qget" ELSE "put"]
    /\ UNCHANGED <<now, stop, modelVars, last_seen_time, frame_queue,
                   frames_read, frame_budget, workers, ui_pc, taken, sessions,
                   otpVars>>

\* Mutant: the unconsumed frame is taken with get(), which waits while the
\* queue is empty.
CamQueueGetWaits ==
    /\ cam.pc = "qget"
    /\ frame_queue # <<>>
    /\ frame_queue' = Tail(frame_queue)
    /\ cam' = [cam EXCEPT !.pc = "put"]
    /\ UNCHANGED <<now, stop, modelVars, last_seen_time, frames_read,
                   frame_budget, workers, ui_pc, taken, sessions, otpVars>>

\* Lines 418-421: get_nowait(); queue.Empty is caught.
CamQueueGet ==
    /\ cam.pc = "qget"
    /\ frame_queue' = IF frame_queue # <<>> THEN Tail(frame_queue)
                                            ELSE frame_queue
    /\ cam' = [cam EXCEPT !.pc = "put", !.caught = (frame_queue = <<>>)]
    /\ UNCHANGED <<now, stop, modelVars, last_seen_time, frames_read,
                   frame_budget, workers, ui_pc, taken, sessions, otpVars>>

\* Line 422: frame_queue.put(frame), which waits while the queue is full.
CamPut ==
    /\ cam.pc = "put"
    /\ Len(frame_queue) < QueueMaxSize
    /\ frame_queue' = Append(frame_queue, cam.frame)
    /\ cam' = CamIdle
    /\ UNCHANGED <<now, stop, modelVars, last_seen_time, frames_read,
                   frame_budget, workers, ui_pc, taken, sessions, otpVars>>

----------------------------------------------------------------------------
(* The attendance workers (lines 751-816).                                 *)

\* _handle_successful_recognition: starts the GoogleFormSubmitter thread.
HandleSuccessfulRecognition(i) ==
    /\ workers[i].pc = "attendance"
    /\ workers' = [workers EXCEPT ![i].pc = "submitter"]
    /\ UNCHANGED <<now, stop, modelVars, last_seen_time, frame_queue, cam,
                   frames_read, frame_budget, ui_pc, taken, sessions,
                   otpVars>>

\* resp.status_code of a response; 0 when session.post raised.
StatusCode(o) ==
    CASE o = "200" -> 200
      [] o = "204" -> 204
      [] o = "301" -> 301
      [] o = "302" -> 302
      [] o = "500" -> 500
      [] OTHER -> 0

\* Lines 797-816: the notification scheduled for an outcome of the POST.
NoticeFor(o) ==
    IF StatusCode(o) # 0
    THEN IF StatusCode(o) \in {200, 302} THEN "success" ELSE "warning"
    ELSE "error"

\* Mutant: a submission that did not succeed takes the cooldown entry back.
SubmitToGoogleFormRollback(i) ==
    /\ workers[i].pc = "submitter"
    /\ \E o \in PostOutcomes :
         /\ workers' = [workers EXCEPT ![i].pc = "done",
                                       ![i].posts = workers[i].posts + 1,
                                       ![i].outcome = o,
                                       ![i].notice = NoticeFor(o),
                                       ![i].notes = workers[i].notes + 1]
         /\ last_seen_time' =
               IF o \in {"200", "302"} THEN last_seen_time
               ELSE [e \in DOMAIN last_seen_time \ {workers[i].emp} |->
                       last_seen_time[e]]
    /\ UNCHANGED <<now, stop, modelVars, frame_queue, cam, frames_read,
                   frame_budget, ui_pc, taken, sessions, otpVars>>

\* Mutant: only a timeout is caught; any other exception of the POST leaves
\* the thread.
SubmitToGoogleFormTimeoutOnly(i) ==
    /\ workers[i].pc = "submitter"
    /\ \E o \in PostOutcomes :
         workers' =
            IF StatusCode(o) = 0 /\ o # "timeout"
            THEN [workers EXCEPT ![i].pc = "raised",
                                 ![i].posts = workers[i].posts + 1,
                                 ![i].outcome = o]
            ELSE [workers EXCEPT ![i].pc = "done",
                                 ![i].posts = workers[i].posts + 1,
                                 ![i].outcome = o,
                                 ![i].notice = NoticeFor(o),
                                 ![i].notes = workers[i].notes + 1]
    /\ UNCHANGED <<now, stop, modelVars, last_seen_time, frame_queue, cam,
                   frames_read, frame_budget, ui_pc, taken, sessions,
                   otpVars>>

\* _submit_to_google_form: one session.post, then the one notification that
\* the branch taken schedules (lines 800, 807, 810, 813, 816).
SubmitToGoogleForm(i) ==
    /\ workers[i].pc = "submitter"
    /\ \E o \in PostOutcomes :
         workers' = [workers EXCEPT ![i].pc = "done",
                                    ![i].posts = workers[i].posts + 1,
                                    ![i].outcome = o,
                                    ![i].notice = NoticeFor(o),
                                    ![i].notes = workers[i].notes + 1]
    /\ UNCHANGED <<now, stop, modelVars, last_seen_time, frame_queue, cam,
                   frames_read, frame_budget, ui_pc, taken, sessions,
                   otpVars>>

----------------------------------------------------------------------------
(* The display refresh on the main thread (_update_texture, 428-438).      *)

\* Lines 430-431: frame_queue.empty(); an empty queue is the early return.
UpdateTextureCheck ==
    /\ ui_pc = "idle"
    /\ frame_queue # <<>>
    /\ ui_pc' = "get"
    /\ UNCHANGED <<now, stop, modelVars, pipelineVars, frame_queue, taken,
                   sessions, otpVars>>

\* Line 432: frame_queue.get(), which waits while the queue is empty.
UpdateTextureGet ==
    /\ ui_pc = "get"
    /\ frame_queue # <<>>
    /\ taken' = Head(frame_queue)
    /\ frame_queue' = Tail(frame_queue)
    /\ ui_pc' = "idle"
    /\ UNCHANGED <<now, stop, modelVars, pipelineVars, sessions, otpVars>>

----------------------------------------------------------------------------
(* The clock and the stop signal.                                          *)

Tick ==
    /\ \E d \in TickSteps : now + d <= MaxTime /\ now' = now + d
    /\ UNCHANGED <<stop, modelVars, pipelineVars, frame_queue, ui_pc,
                   taken, sessions, otpVars>>

\* on_stop, line 220: the stop signal is set; the main thread goes on to
\* the join.
OnStop ==
    /\ ui_pc = "idle"
    /\ ~stop
    /\ stop' = TRUE
    /\ ui_pc' = "join"
    /\ UNCHANGED <<now, modelVars, pipelineVars, frame_queue,
                   taken, sessions, otpVars>>

\* Mutant: the join has no timeout.
OnStopJoinUnbounded ==
    /\ ui_pc = "join"
    /\ cam.pc = "exit"
    /\ ui_pc' = "release"
    /\ UNCHANGED <<now, stop, modelVars, pipelineVars, frame_queue,
                   taken, sessions, otpVars>>

\* on_stop, lines 222-223: the join of the camera thread returns, because
\* the thread has ended or because the 2 seconds have passed; it is skipped
\* when the thread has ended already.
OnStopJoin ==
    /\ ui_pc = "join"
    /\ ui_pc' = "release"
    /\ UNCHANGED <<now, stop, modelVars, pipelineVars, frame_queue,
                   taken, sessions, otpVars>>

\* on_stop, lines 225-228: the capture is released and the handler ends.
OnStopRelease ==
    /\ ui_pc = "release"
    /\ capture_open' = FALSE
    /\ ui_pc' = "stopped"
    /\ UNCHANGED <<now, stop, modelVars, pipelineVars, frame_queue,
                   taken, sessions, user_emails, otp_storage, pending_names,
                   email_popups, popups, mailers, issued, verified, rejected,
                   session_budget, otp_budget, naming>>

Shutdown == OnStop \/ OnStopJoin \/ OnStopRelease

----------------------------------------------------------------------------
(* Enrollment sessions (_capture_samples, lines 654-744).                  *)

NoName == "<None>"

\* Lines 666-670: the first identity of the label map with this id.
ResolveName(lm, emp) ==
    IF \E i \in DOMAIN lm : lm[i][2] = emp
    THEN lm[CHOOSE i \in DOMAIN lm :
               /\ lm[i][2] = emp
               /\ \A j \in DOMAIN lm : lm[j][2] = emp => i <= j][1]
    ELSE NoName

\* glob("{name}_{emp_id}_*.jpg") of lines 678-679.
ExistingFiles(files, n, e) == {f \in files : f.name = n /\ f.emp = e}

\* threading.Thread(target=self._capture_samples, args=...).start()
NewSession(n, e, upd, cnt) ==
    [pc |-> "resolve", name |-> n, emp |-> e, updating |-> upd,
     sample_count |-> cnt, count_target |-> 0, start_index |-> 0,
     collected |-> 0, ticks |-> 0, frame |-> 0,
     rec |-> <<>>, lm |-> <<>>]

\* Mutant: the session goes on without a name.
SessionResolveNoReturn(i) ==
    /\ sessions[i].pc = "resolve"
    /\ LET s == sessions[i]
           n == IF s.name = NoName THEN ResolveName(label_map, s.emp)
                                   ELSE s.name
       IN  sessions' = [sessions EXCEPT ![i].name = n, ![i].pc = "glob"]
    /\ UNCHANGED <<now, stop, modelVars, pipelineVars, frame_queue, ui_pc,
                   taken, otpVars>>

\* Lines 666-674: the name is resolved; without one the session ends.
SessionResolve(i) ==
    /\ sessions[i].pc = "resolve"
    /\ LET s == sessions[i]
           n == IF s.name = NoName THEN ResolveName(label_map, s.emp)
                                   ELSE s.name
       IN  sessions' = [sessions EXCEPT ![i].name = n,
                          ![i].pc = IF n = NoName THEN "failed" ELSE "glob"]
    /\ UNCHANGED <<now, stop, modelVars, pipelineVars, frame_queue, ui_pc,
                   taken, otpVars>>

\* Lines 676-681: the target and the first sequence number.
SessionGlob(i) ==
    /\ sessions[i].pc = "glob"
    /\ LET s == sessions[i] IN
       sessions' = [sessions EXCEPT
           ![i].count_target = IF s.sample_count # 0 THEN s.sample_count
                                                     ELSE SAMPLES_PER_USER,
           ![i].start_index =
               Cardinality(ExistingFiles(known_faces, s.name, s.emp)),
           ![i].collected = 0,
           ![i].ticks = CountdownFrom,
           ![i].pc = "countdown"]
    /\ UNCHANGED <<now, stop, modelVars, pipelineVars, frame_queue, ui_pc,
                   taken, otpVars>>

\* Lines 688-692: one tick of the countdown; after the last, capturing.
SessionCountdown(i) ==
    /\ sessions[i].pc = "countdown"
    /\ sessions' = [sessions EXCEPT
           ![i].ticks = sessions[i].ticks - 1,
           ![i].pc = IF sessions[i].ticks - 1 > 0 THEN "countdown" ELSE "loop"]
    /\ UNCHANGED <<now, stop, modelVars, pipelineVars, frame_queue, ui_pc,
                   taken, otpVars>>

\* Mutant: the loop runs once more after the target is reached.
SessionLoopOneMore(i) ==
    /\ sessions[i].pc = "loop"
    /\ sessions' = [sessions EXCEPT
           ![i].frame = 0,
           ![i].pc = IF sessions[i].collected <= sessions[i].count_target
                        /\ ~stop
                     THEN "drain" ELSE "train"]
    /\ UNCHANGED <<now, stop, modelVars, pipelineVars, frame_queue, ui_pc,
                   taken, otpVars>>

\* Line 695: the loop test; line 698: frame = None.
SessionLoop(i) ==
    /\ sessions[i].pc = "loop"
    /\ sessions' = [sessions EXCEPT
           ![i].frame = 0,
           ![i].pc = IF sessions[i].collected < sessions[i].count_target
                        /\ ~stop
                     THEN "drain" ELSE "train"]
    /\ UNCHANGED <<now, stop, modelVars, pipelineVars, frame_queue, ui_pc,
                   taken, otpVars>>

\* Line 699: frame_queue.empty(); lines 702-704 when nothing was taken.
SessionDrainCheck(i) ==
    /\ sessions[i].pc = "drain"
    /\ sessions' = [sessions EXCEPT
           ![i].pc = IF frame_queue # <<>> THEN "drain_get"
                     ELSE IF sessions[i].frame = 0 THEN "loop" ELSE "detect"]
    /\ UNCHANGED <<now, stop, modelVars, pipelineVars, frame_queue, ui_pc,
                   taken, otpVars>>

\* Line 700: frame_queue.get_nowait(); queue.Empty is not caught here and
\* ends the thread.
SessionDrainGet(i) ==
    /\ sessions[i].pc = "drain_get"
    /\ IF frame_queue # <<>>
       THEN /\ sessions' = [sessions EXCEPT ![i].frame = Head(frame_queue),
                                            ![i].pc = "drain"]
            /\ taken' = Head(frame_queue)
            /\ frame_queue' = Tail(frame_queue)
       ELSE /\ sessions' = [sessions EXCEPT ![i].pc = "crashed"]
            /\ UNCHANGED <<taken, frame_queue>>
    /\ UNCHANGED <<now, stop, modelVars, pipelineVars, ui_pc, otpVars>>

\* Lines 706-734: detection on the frame; with a face the next sample file
\* is written (imwrite replaces a file of the same name).
SessionCapture(i) ==
    /\ sessions[i].pc = "detect"
    /\ \E face \in BOOLEAN :
         LET s == sessions[i] IN
         IF face
         THEN /\ known_faces' = known_faces \cup
                     {File(s.name, s.emp, s.start_index + s.collected)}
              /\ sessions' = [sessions EXCEPT
                     ![i].collected = s.collected + 1, ![i].pc = "loop"]
         ELSE /\ known_faces' = known_faces
              /\ sessions' = [sessions EXCEPT ![i].pc = "loop"]
    /\ UNCHANGED <<now, stop, recognizer, label_map, pipelineVars,
                   frame_queue, ui_pc, taken, otpVars>>

\* Mutant: training fills the shared recognizer and label map themselves.
SessionTrainInPlace(i) ==
    /\ sessions[i].pc = "train"
    /\ LET r == TrainRecognizer(known_faces) IN
       /\ sessions' = [sessions EXCEPT ![i].rec = r[1], ![i].lm = r[2],
                                       ![i].pc = "install_rec"]
       /\ recognizer' = r[1]
       /\ label_map' = r[2]
    /\ UNCHANGED <<now, stop, known_faces, pipelineVars, frame_queue, ui_pc,
                   taken, otpVars>>

\* Line 738, right-hand side: _train_recognizer() on the files present.
SessionTrain(i) ==
    /\ sessions[i].pc = "train"
    /\ LET r == TrainRecognizer(known_faces) IN
       sessions' = [sessions EXCEPT ![i].rec = r[1], ![i].lm = r[2],
                                    ![i].pc = "install_rec"]
    /\ UNCHANGED <<now, stop, modelVars, pipelineVars, frame_queue, ui_pc,
                   taken, otpVars>>

\* Line 738, first store of the tuple assignment: self.recognizer.
SessionInstallRecognizer(i) ==
    /\ sessions[i].pc = "install_rec"
    /\ recognizer' = sessions[i].rec
    /\ sessions' = [sessions EXCEPT ![i].pc = "install_map"]
    /\ UNCHANGED <<now, stop, known_faces, label_map, pipelineVars,
                   frame_queue, ui_pc, taken, otpVars>>

\* Line 738, second store of the tuple assignment: self.label_map.
SessionInstallLabelMap(i) ==
    /\ sessions[i].pc = "install_map"
    /\ label_map' = sessions[i].lm
    /\ sessions' = [sessions EXCEPT ![i].pc = "notify"]
    /\ UNCHANGED <<now, stop, known_faces, recognizer, pipelineVars,
                   frame_queue, ui_pc, taken, otpVars>>

\* Mutant: every completion is reported as a registration.
SessionNotifyAlwaysRegistered(i) ==
    /\ sessions[i].pc = "notify"
    /\ sessions' = [sessions EXCEPT ![i].pc = "registered"]
    /\ UNCHANGED <<now, stop, modelVars, pipelineVars, frame_queue, ui_pc,
                   taken, otpVars>>

\* Lines 739-744: completion is reported.
SessionNotify(i) ==
    /\ sessions[i].pc = "notify"
    /\ sessions' = [sessions EXCEPT
           ![i].pc = IF sessions[i].updating THEN "updated" ELSE "registered"]
    /\ UNCHANGED <<now, stop, modelVars, pipelineVars, frame_queue, ui_pc,
                   taken, otpVars>>

----------------------------------------------------------------------------
(* Text typed into the popups.  A text is a sequence of characters.        *)

RECURSIVE LStrip(_)
LStrip(s) == IF s # <<>> /\ Head(s) = " " THEN LStrip(Tail(s)) ELSE s

RECURSIVE RStrip(_)
RStrip(s) ==
    IF s # <<>> /\ s[Len(s)] = " " THEN RStrip(SubSeq(s, 1, Len(s) - 1))
                                    ELSE s

\* str.strip()
Strip(s) == RStrip(LStrip(s))

\* "@" in email
HasAt(s) == \E i \in DOMAIN s : s[i] = "@"

\* Codes _generate_otp can return: str(random.randint(100000, 999999)).
OtpCodes == {<<"1", "0", "0", "0", "0", "0">>,
             <<"9", "9", "9", "9", "9", "9">>}

\* What an operator may type into the OTP field.
OtpTexts == OtpCodes
            \cup {<<" ">> \o c : c \in OtpCodes}
            \cup {c \o <<" ">> : c \in OtpCodes}
            \cup {<<>>, <<"1", "0", "0", "0", "0">>}

\* What an operator may type into an e-mail field.
EmailTexts == {<<>>, <<"a", "x">>, <<"a", "@", "x">>, <<" ", "a", "@", "x">>}

NoCode == <<"<None>">>

\* Mutant: an id without a stored code reads as the empty code.
OtpGetEmptyDefault(st, emp) == IF emp \in DOMAIN st THEN st[emp] ELSE <<>>

\* self.otp_storage.get(emp_id)
OtpGet(st, emp) == IF emp \in DOMAIN st THEN st[emp] ELSE NoCode

\* self.pending_names.get(emp_id)
PendingNameGet(pn, emp) == IF emp \in DOMAIN pn THEN pn[emp] ELSE NoName

IssuedCount == Len(issued)

\* The code generated last for emp, from the history.
LastIssued(h, emp) ==
    LET at == {k \in DOMAIN h : h[k].emp = emp} IN
    IF at = {} THEN NoCode
    ELSE h[CHOOSE k \in at : \A m \in at : m <= k].code

RemoveAt(s, j) == [k \in 1..(Len(s) - 1) |-> IF k < j THEN s[k] ELSE s[k + 1]]

----------------------------------------------------------------------------
(* File names (lines 511-512, 719 and 451-472), character by character.    *)

\* What an operator may type into the name field and into the id field.
NameTexts == {<<"a", "l">>, <<"A", "l">>, <<" ", "a", "l", " ">>,
              <<"a", " ", "b">>}

IdTexts == {<<"e", "1">>, <<"E", "1">>, <<"e", "1", " ">>,
            <<"E", "_", "1">>}

\* Sequence numbers a session may reach.
SeqNums == {0, 9, 14}

LowerChar(c) == CASE c = "A" -> "a" [] c = "B" -> "b" [] c = "E" -> "e"
                  [] c = "L" -> "l" [] c = "J" -> "j" [] c = "P" -> "p"
                  [] c = "G" -> "g" [] OTHER -> c

UpperChar(c) == CASE c = "a" -> "A" [] c = "b" -> "B" [] c = "e" -> "E"
                  [] c = "l" -> "L" [] c = "j" -> "J" [] c = "p" -> "P"
                  [] c = "g" -> "G" [] OTHER -> c

\* str.lower(), str.upper()
Lower(s) == [i \in DOMAIN s |-> LowerChar(s[i])]

Upper(s) == [i \in DOMAIN s |-> UpperChar(s[i])]

\* str.replace(" ", "_")
SpacesToUnderscores(s) == [i \in DOMAIN s |-> IF s[i] = " " THEN "_" ELSE s[i]]

\* Line 511: the name as _submit normalises it.
NormalName(txt) == SpacesToUnderscores(Lower(Strip(txt)))

\* Line 512: the id as _submit normalises it.
NormalEmpId(txt) == Upper(Strip(txt))

DigitChars == <<"0", "1", "2", "3", "4", "5", "6", "7", "8", "9">>

\* f"{k:03d}" for k below 1000.
Seq3(k) == <<DigitChars[(k \div 100) + 1], DigitChars[((k \div 10) % 10) + 1],
             DigitChars[(k % 10) + 1]>>

\* Line 719: f"{name}_{emp_id}_{start_index + collected:03d}.jpg"
FileName(name, emp, k) ==
    name \o <<"_">> \o emp \o <<"_">> \o Seq3(k) \o <<".", "j", "p", "g">>

\* The position of the first "_" of s, or 0.
FirstUnderscore(s) ==
    IF \E i \in DOMAIN s : s[i] = "_"
    THEN CHOOSE i \in DOMAIN s :
            s[i] = "_" /\ \A j \in 1..(i - 1) : s[j] # "_"
    ELSE 0

\* file.split("_", 2): at most two cuts, at the first two underscores.
SplitTwice(s) ==
    LET i == FirstUnderscore(s) IN
    IF i = 0 THEN <<s>>
    ELSE LET r == SubSeq(s, i + 1, Len(s))
             j == FirstUnderscore(r)
         IN  IF j = 0 THEN <<SubSeq(s, 1, i - 1), r>>
             ELSE <<SubSeq(s, 1, i - 1), SubSeq(r, 1, j - 1),
                    SubSeq(r, j + 1, Len(r))>>

EndsWith(s, t) ==
    Len(s) >= Len(t) /\ SubSeq(s, Len(s) - Len(t) + 1, Len(s)) = t

Skipped == <<"<skipped>">>

\* Lines 452-460 and 471: the label-map entry a file gives, or none when the
\* file is skipped.
ParseFileName(file) ==
    LET parts == SplitTwice(file) IN
    IF ~(\/ EndsWith(Lower(file), <<".", "j", "p", "g">>)
         \/ EndsWith(Lower(file), <<".", "p", "n", "g">>))
       \/ Len(parts) # 3
    THEN Skipped
    ELSE <<Lower(parts[1]), Upper(parts[2])>>

NamingIdle == [pc |-> "idle", name_text |-> <<>>, id_text |-> <<>>,
               name |-> <<>>, emp |-> <<>>, file |-> <<>>, entry |-> <<>>]

\* Lines 511-516 of _register_popup._submit, with a valid e-mail address.
NamingSubmit ==
    /\ naming.pc = "idle"
    /\ \E ntxt \in NameTexts, etxt \in IdTexts :
         /\ NormalName(ntxt) # <<>> /\ NormalEmpId(etxt) # <<>>
         /\ naming' = [naming EXCEPT !.pc = "named",
                          !.name_text = ntxt, !.id_text = etxt,
                          !.name = NormalName(ntxt),
                          !.emp = NormalEmpId(etxt)]
    /\ UNCHANGED <<now, stop, modelVars, pipelineVars, frame_queue, ui_pc,
                   taken, sessions, user_emails, otp_storage, pending_names,
                   email_popups, popups, mailers, issued, verified, rejected,
                   session_budget, otp_budget, capture_open>>

\* Lines 719-721: the session writes one of its samples.
NamingWrite ==
    /\ naming.pc = "named"
    /\ \E k \in SeqNums :
         naming' = [naming EXCEPT !.pc = "written",
                       !.file = FileName(naming.name, naming.emp, k)]
    /\ UNCHANGED <<now, stop, modelVars, pipelineVars, frame_queue, ui_pc,
                   taken, sessions, user_emails, otp_storage, pending_names,
                   email_popups, popups, mailers, issued, verified, rejected,
                   session_budget, otp_budget, capture_open>>

\* Lines 451-472: retraining reads the file name back.
NamingTrain ==
    /\ naming.pc = "written"
    /\ naming' = [naming EXCEPT !.pc = "trained",
                                !.entry = ParseFileName(naming.file)]
    /\ UNCHANGED <<now, stop, modelVars, pipelineVars, frame_queue, ui_pc,
                   taken, sessions, user_emails, otp_storage, pending_names,
                   email_popups, popups, mailers, issued, verified, rejected,
                   session_budget, otp_budget, capture_open>>

----------------------------------------------------------------------------
(* Registration and the update flow (main-thread handlers, 509-648).       *)

\* The test of line 514, on the fields as lines 511-513 normalise them.
RegisterValid(n, e, email) == n # "" /\ e # "" /\ email # <<>> /\ HasAt(email)

\* The test of line 579.
EmailValid(email) == email # <<>> /\ HasAt(email)

NoReject == [handler |-> "none", name |-> "", emp |-> "", email |-> <<>>]

\* Mutant: the address is stored before the fields are validated.
RegisterRejectSaveFirst ==
    /\ ui_pc = "idle"
    /\ \E n \in Names \cup {""}, e \in EmpIds \cup {""}, txt \in EmailTexts :
         LET email == Strip(txt) IN
         /\ ~RegisterValid(n, e, email)
         /\ user_emails' = DictSet(user_emails, e, email)
         /\ rejected' = [handler |-> "register", name |-> n, emp |-> e,
                         email |-> email]
    /\ UNCHANGED <<now, stop, modelVars, pipelineVars, frame_queue, ui_pc,
                   taken, sessions, otp_storage, pending_names,
                   email_popups, popups, mailers, issued, verified,
                   restVars>>

\* _register_popup._submit with fields that fail the test of line 514: the
\* warning of line 515 and the return of line 516; the popup stays open.
RegisterReject ==
    /\ ui_pc = "idle"
    /\ \E n \in Names \cup {""}, e \in EmpIds \cup {""}, txt \in EmailTexts :
         LET email == Strip(txt) IN
         /\ ~RegisterValid(n, e, email)
         /\ rejected' = [handler |-> "register", name |-> n, emp |-> e,
                         email |-> email]
    /\ UNCHANGED <<now, stop, modelVars, pipelineVars, frame_queue, ui_pc,
                   taken, sessions, user_emails, otp_storage, pending_names,
                   email_popups, popups, mailers, issued, verified,
                   restVars>>

\* _register_popup._submit with valid fields, lines 509-525.
RegisterSubmit ==
    /\ ui_pc = "idle"
    /\ Len(sessions) < session_budget
    /\ \E n \in Names \cup {""}, e \in EmpIds \cup {""}, txt \in EmailTexts :
         LET email == Strip(txt) IN
         /\ RegisterValid(n, e, email)
         /\ user_emails' = DictSet(user_emails, e, email)
         /\ sessions' = Append(sessions, NewSession(n, e, FALSE, 0))
    /\ UNCHANGED <<now, stop, modelVars, pipelineVars, frame_queue, ui_pc,
                   taken, otp_storage, pending_names, email_popups,
                   popups, mailers, issued, verified,
                   rejected, restVars>>

\* The stores of _send_otp_flow, lines 591-593, with the code drawn.
StoreOtp(emp, name, otp) ==
    /\ otp_storage' = DictSet(otp_storage, emp, otp)
    /\ pending_names' = DictSet(pending_names, emp, name)

\* _send_otp_flow, lines 588-608: a code is drawn and stored and the
\* SendOTPThread is started.
SendOtpFlow(emp, email, name) ==
    \E otp \in OtpCodes :
       /\ StoreOtp(emp, name, otp)
       /\ issued' = Append(issued, [emp |-> emp, code |-> otp])
       /\ mailers' = Append(mailers, [emp |-> emp, email |-> email,
                                      otp |-> otp, pc |-> "sending"])

\* Mutant: the update flow asks for an address whether one is stored or not.
UpdateNextAlwaysAsk ==
    /\ ui_pc = "idle"
    /\ IssuedCount < otp_budget
    /\ \E emp \in EmpIds \cup {""} :
         LET name_existing == ResolveName(label_map, emp) IN
         /\ emp # ""
         /\ email_popups' =
               email_popups \cup {[emp |-> emp, name |-> name_existing]}
         /\ UNCHANGED <<otp_storage, pending_names, issued, mailers>>
    /\ UNCHANGED <<now, stop, modelVars, pipelineVars, frame_queue, ui_pc,
                   taken, sessions, user_emails, popups, verified,
                   rejected, restVars>>

\* _update_photos_popup._next with an id, lines 541-558.
UpdateNext ==
    /\ ui_pc = "idle"
    /\ IssuedCount < otp_budget
    /\ \E emp \in EmpIds \cup {""} :
         LET name_existing == ResolveName(label_map, emp) IN
         /\ emp # ""
         /\ IF emp \in DOMAIN user_emails /\ user_emails[emp] # <<>>
            THEN /\ SendOtpFlow(emp, user_emails[emp], name_existing)
                 /\ UNCHANGED email_popups
            ELSE /\ email_popups' =
                       email_popups \cup {[emp |-> emp, name |-> name_existing]}
                 /\ UNCHANGED <<otp_storage, pending_names, issued, mailers>>
    /\ UNCHANGED <<now, stop, modelVars, pipelineVars, frame_queue, ui_pc,
                   taken, sessions, user_emails, popups, verified,
                   rejected, restVars>>

\* _update_photos_popup._next with an empty id: the warning of line 545 and
\* the return of line 546; the popup stays open.
UpdateReject ==
    /\ ui_pc = "idle"
    /\ \E emp \in EmpIds \cup {""} :
         /\ emp = ""
         /\ rejected' = [handler |-> "update", name |-> "", emp |-> emp,
                         email |-> <<>>]
    /\ UNCHANGED <<now, stop, modelVars, pipelineVars, frame_queue, ui_pc,
                   taken, sessions, user_emails, otp_storage, pending_names,
                   email_popups, popups, mailers, issued, verified,
                   restVars>>

\* _email_registration_flow._submit with an address that fails the test of
\* line 579: the warning of line 584; the popup stays open.
EmailReject ==
    /\ ui_pc = "idle"
    /\ \E p \in email_popups, txt \in EmailTexts :
         LET email == Strip(txt) IN
         /\ ~EmailValid(email)
         /\ rejected' = [handler |-> "email", name |-> "", emp |-> p.emp,
                         email |-> email]
    /\ UNCHANGED <<now, stop, modelVars, pipelineVars, frame_queue, ui_pc,
                   taken, sessions, user_emails, otp_storage, pending_names,
                   email_popups, popups, mailers, issued, verified,
                   restVars>>

\* _email_registration_flow._submit with a valid address, lines 576-584.
EmailSubmit ==
    /\ ui_pc = "idle"
    /\ IssuedCount < otp_budget
    /\ \E p \in email_popups, txt \in EmailTexts :
         LET email == Strip(txt) IN
         /\ EmailValid(email)
         /\ user_emails' = DictSet(user_emails, p.emp, email)
         /\ email_popups' = email_popups \ {p}
         /\ SendOtpFlow(p.emp, email, p.name)
    /\ UNCHANGED <<now, stop, modelVars, pipelineVars, frame_queue, ui_pc,
                   taken, sessions, popups, verified,
                   rejected, restVars>>

\* _send_thread, lines 597-606: the mail is sent; the next popup is scheduled.
SendThread(i) ==
    /\ mailers[i].pc = "sending"
    /\ \E ok \in BOOLEAN :
         mailers' = [mailers EXCEPT ![i].pc = IF ok THEN "sent" ELSE "failed"]
    /\ UNCHANGED <<now, stop, modelVars, pipelineVars, frame_queue, ui_pc,
                   taken, sessions, user_emails, otp_storage,
                   pending_names, email_popups, popups, issued, verified,
                   rejected, restVars>>

\* Line 602, the scheduled callback: _otp_verify_popup(emp_id, email) opens.
OtpVerifyPopup(i) ==
    /\ ui_pc = "idle"
    /\ mailers[i].pc = "sent"
    /\ mailers' = [mailers EXCEPT ![i].pc = "done"]
    /\ popups' = Append(popups, [emp |-> mailers[i].emp,
                                  email |-> mailers[i].email])
    /\ UNCHANGED <<now, stop, modelVars, pipelineVars, frame_queue, ui_pc,
                   taken, sessions, user_emails, otp_storage,
                   pending_names, email_popups, issued, verified,
                   rejected, restVars>>

\* The test of line 624.
OtpMatches(st, emp, txt) == Strip(txt) = OtpGet(st, emp)

\* Mutant: a rejected code closes the popup and withdraws the stored code.
VerifyLockout(j) ==
    /\ ui_pc = "idle"
    /\ \E txt \in OtpTexts :
         LET emp == popups[j].emp
             ok  == OtpMatches(otp_storage, emp, txt)
         IN  /\ verified' = [pressed |-> TRUE, emp |-> emp, text |-> txt,
                             ok |-> ok, latest |-> LastIssued(issued, emp),
                             after_wrong |-> /\ verified.pressed
                                             /\ ~verified.ok
                                             /\ verified.emp = emp]
             /\ popups' = RemoveAt(popups, j)
             /\ IF ok
                THEN /\ sessions' = Append(sessions,
                            NewSession(PendingNameGet(pending_names, emp),
                                       emp, TRUE, UpdateSampleCount))
                     /\ otp_storage' = otp_storage
                ELSE /\ sessions' = sessions
                     /\ otp_storage' = [e \in DOMAIN otp_storage \ {emp} |->
                                          otp_storage[e]]
    /\ UNCHANGED <<now, stop, modelVars, pipelineVars, frame_queue, ui_pc,
                   taken, user_emails, pending_names, email_popups, mailers,
                   issued,
                   rejected, restVars>>

\* _otp_verify_popup._verify, lines 622-636.
Verify(j) ==
    /\ ui_pc = "idle"
    /\ \E txt \in OtpTexts :
         LET emp == popups[j].emp
             ok  == OtpMatches(otp_storage, emp, txt)
         IN  /\ verified' = [pressed |-> TRUE, emp |-> emp, text |-> txt,
                             ok |-> ok, latest |-> LastIssued(issued, emp),
                             after_wrong |-> /\ verified.pressed
                                             /\ ~verified.ok
                                             /\ verified.emp = emp]
             /\ IF ok
                THEN /\ popups' = RemoveAt(popups, j)
                     /\ sessions' = Append(sessions,
                            NewSession(PendingNameGet(pending_names, emp),
                                       emp, TRUE, UpdateSampleCount))
                ELSE UNCHANGED <<popups, sessions>>
    /\ UNCHANGED <<now, stop, modelVars, pipelineVars, frame_queue, ui_pc,
                   taken, user_emails, otp_storage, pending_names,
                   email_popups, mailers, issued,
                   rejected, restVars>>

\* Mutant: the resent code is mailed but not stored.
StoreResentOtpDropped(emp, otp) == otp_storage' = otp_storage

\* The store of _resend, line 641.
StoreResentOtp(emp, otp) == otp_storage' = DictSet(otp_storage, emp, otp)

\* _otp_verify_popup._resend, lines 638-642: a new code is drawn and stored
\* and the handler itself calls _send_otp_email: the main thread is inside
\* the SMTP exchange until ResendSent.
Resend(j) ==
    /\ ui_pc = "idle"
    /\ IssuedCount < otp_budget
    /\ \E otp \in OtpCodes :
         /\ StoreResentOtp(popups[j].emp, otp)
         /\ issued' = Append(issued, [emp |-> popups[j].emp, code |-> otp])
    /\ ui_pc' = "resend"
    /\ UNCHANGED <<now, stop, modelVars, pipelineVars, frame_queue,
                   taken, sessions, user_emails, pending_names,
                   email_popups, popups, mailers, verified,
                   rejected, restVars>>

\* Lines 642-645: _send_otp_email returns (its result is not used) and the
\* handler ends.
ResendSent ==
    /\ ui_pc = "resend"
    /\ ui_pc' = "idle"
    /\ UNCHANGED <<now, stop, modelVars, pipelineVars, frame_queue, taken,
                   sessions, otpVars>>

----------------------------------------------------------------------------
(* The system.                                                             *)

\* The state after FaceApp.__init__ (lines 92-142) and build (188-199), with
\* the sample files `store` on disk, the clock reading `clock`, a camera
\* that delivers `budget` frames, and an operator who makes `regs`
\* registrations and has `codes` codes generated.
InitAt(store, clock, budget, regs, codes) ==
    /\ now = clock
    /\ stop = FALSE
    /\ known_faces = store
    /\ recognizer = TrainRecognizer(store)[1]
    /\ label_map = TrainRecognizer(store)[2]
    /\ last_seen_time = <<>>
    /\ frame_queue = <<>>
    /\ cam = CamIdle
    /\ frames_read = 0
    /\ frame_budget = budget
    /\ workers = <<>>
    /\ ui_pc = "idle"
    /\ taken = 0
    /\ sessions = <<>>
    /\ user_emails = [e \in {"E1"} |-> <<"a", "@", "x">>]
    /\ otp_storage = <<>>
    /\ pending_names = <<>>
    /\ email_popups = {}
    /\ popups = <<>>
    /\ mailers = <<>>
    /\ issued = <<>>
    /\ verified = [pressed |-> FALSE, emp |-> "", text |-> <<>>, ok |-> FALSE,
                   latest |-> NoCode, after_wrong |-> FALSE]
    /\ rejected = NoReject
    /\ session_budget = regs
    /\ otp_budget = codes
    /\ naming = NamingIdle
    /\ capture_open = TRUE

Init == InitAt(InitialStore, 0, MaxFrames, MaxSessions, MaxOtpIssues)

Camera ==
    \/ CamExit
    \/ CamRead
    \/ CamDetect
    \/ CamPredict
    \/ CamLookup
    \/ CamCheck
    \/ CamSpawn
    \/ CamQueueEmpty
    \/ CamQueueGet
    \/ CamPut

Workers ==
    \E i \in DOMAIN workers :
       \/ HandleSuccessfulRecognition(i)
       \/ SubmitToGoogleForm(i)

Display ==
    \/ UpdateTextureCheck
    \/ UpdateTextureGet

\* One step of the _capture_samples thread number i.
SessionStep(i) ==
    \/ SessionResolve(i)
    \/ SessionGlob(i)
    \/ SessionCountdown(i)
    \/ SessionLoop(i)
    \/ SessionDrainCheck(i)
    \/ SessionDrainGet(i)
    \/ SessionCapture(i)
    \/ SessionTrain(i)
    \/ SessionInstallRecognizer(i)
    \/ SessionInstallLabelMap(i)
    \/ SessionNotify(i)

Enrollment == \E i \in DOMAIN sessions : SessionStep(i)

OtpFlow ==
    \/ UpdateNext
    \/ EmailSubmit
    \/ \E i \in DOMAIN mailers : SendThread(i) \/ OtpVerifyPopup(i)
    \/ \E j \in DOMAIN popups : Verify(j) \/ Resend(j)
    \/ ResendSent

Rejects ==
    \/ RegisterReject
    \/ UpdateReject
    \/ EmailReject

NextNaming == NamingSubmit \/ NamingWrite \/ NamingTrain

Next ==
    \/ Camera
    \/ Workers
    \/ Display
    \/ Enrollment
    \/ RegisterSubmit
    \/ OtpFlow
    \/ Rejects
    \/ NextNaming
    \/ Tick
    \/ Shutdown

Spec == Init /\ [][Next]_vars

\* The recognition pipeline with its clock and its attendance workers.
NextDispatch == Camera \/ Workers \/ Tick \/ Shutdown

SpecDispatch == Init /\ [][NextDispatch]_vars

\* The threads that share the frame queue and the (recognizer, label_map)
\* references: the camera, the display refresh and a registration session.
\* A first registration: no sample is on disk and the recognizer is
\* untrained; the camera delivers the frames a registration needs and one
\* more.  The clock has passed the first cooldown window and is not advanced.
InitEnroll ==
    InitAt({}, RECOGNITION_INTERVAL + 1, MaxEnrollFrames, MaxSessions,
           MaxOtpIssues)

NextEnroll == Camera \/ Display \/ Enrollment \/ RegisterSubmit \/ Shutdown

SpecEnroll == InitEnroll /\ [][NextEnroll]_vars

\* The main-thread handlers of the update flow and the mail threads.
NextOtp == OtpFlow \/ RegisterSubmit

SpecOtp == Init /\ [][NextOtp]_vars

\* An operator who does one thing at a time: a registration or an update is
\* begun only when no session is running and no update flow is under way.
SessionFinal == {"failed", "crashed", "registered", "updated"}

OperatorIdle ==
    /\ \A i \in DOMAIN sessions : sessions[i].pc \in SessionFinal
    /\ popups = <<>>
    /\ email_popups = {}
    /\ \A i \in DOMAIN mailers : mailers[i].pc \in {"done", "failed"}

RegisterWhenIdle == OperatorIdle /\ RegisterSubmit

UpdateWhenIdle == OperatorIdle /\ UpdateNext

MailThreads == \E i \in DOMAIN mailers : SendThread(i) \/ OtpVerifyPopup(i)

VerifyPress == \E j \in DOMAIN popups : Verify(j)

\* Registration and update sessions, one after the other, on a store that
\* holds samples of two identities, with the camera and the stop signal.
InitSessions ==
    InitAt(InitialStore, RECOGNITION_INTERVAL + 1, MaxSessionFrames,
           MaxSessions, MaxSessionCodes)

NextSessions ==
    \/ Camera
    \/ Enrollment
    \/ RegisterWhenIdle
    \/ UpdateWhenIdle
    \/ MailThreads
    \/ VerifyPress
    \/ Shutdown

SpecSessions == InitSessions /\ [][NextSessions]_vars

\* Two registrations that may overlap, from an empty store, with the camera
\* and the stop signal.
InitOverlap ==
    InitAt({}, RECOGNITION_INTERVAL + 1, MaxSessionFrames, MaxOverlap,
           MaxOtpIssues)

NextOverlap == Camera \/ Enrollment \/ RegisterSubmit \/ Shutdown

SpecOverlap == InitOverlap /\ [][NextOverlap]_vars

\* Shutdown during a registration: the camera, the display refresh, one
\* registration session and on_stop, with threads that the scheduler does
\* not starve: a thread that can take a step eventually takes one.
InitStop ==
    InitAt({}, RECOGNITION_INTERVAL + 1, MaxSessionFrames, MaxSessions,
           MaxOtpIssues)

ThreadsProgress ==
    /\ WF_vars(Camera)
    /\ \A i \in 1..MaxSessions : WF_vars(i \in DOMAIN sessions /\ SessionStep(i))

SpecStop == InitStop /\ [][NextEnroll]_vars /\ ThreadsProgress

\* One update to its end, with the frames an update needs and one more, a
\* camera thread whose detector finds no face in them, and on_stop.
CamDetectNoFace == CamDetect /\ cam'.faces = 0

QuietCamera ==
    \/ CamExit
    \/ CamRead
    \/ CamDetectNoFace
    \/ CamQueueEmpty
    \/ CamQueueGet
    \/ CamPut

NothingBegun == sessions = <<>> /\ issued = <<>>

UpdateOnce == NothingBegun /\ UpdateNext

InitCount ==
    InitAt(InitialStore, RECOGNITION_INTERVAL + 1, MaxUpdateFrames,
           MaxSessions, MaxSessionCodes)

NextCount ==
    \/ QuietCamera
    \/ Enrollment
    \/ UpdateOnce
    \/ MailThreads
    \/ VerifyPress
    \/ Shutdown

SpecCount == InitCount /\ [][NextCount]_vars

\* The update flow and registrations on an empty store: no id has an
\* identity in the label map until a registration has installed one.  The
\* camera thread's detector finds no face.
InitNoIdentity ==
    InitAt({}, RECOGNITION_INTERVAL + 1, MaxSessionFrames, MaxSessions,
           MaxSessionCodes)

NextNoIdentity ==
    \/ QuietCamera
    \/ Enrollment
    \/ RegisterSubmit
    \/ UpdateNext
    \/ MailThreads
    \/ VerifyPress
    \/ Shutdown

SpecNoIdentity == InitNoIdentity /\ [][NextNoIdentity]_vars

\* One identity from the registration fields to its label-map entry.
SpecNaming == Init /\ [][NextNaming]_vars

\* The three submit handlers with every input, valid or not.
NextInput == RegisterSubmit \/ UpdateNext \/ EmailSubmit \/ Rejects

SpecInput == Init /\ [][NextInput]_vars

----------------------------------------------------------------------------
(* Claims.                                                                 *)

Abs(x) == IF x < 0 THEN -x ELSE x

\* The face handled last has been decided and, on a positive decision, its
\* thread has been started.
Handled == cam.verdict # "none" /\ cam.pc \notin {"check", "spawn"}

WorkersFor(emp, t) ==
    {i \in DOMAIN workers : workers[i].emp = emp /\ workers[i].t = t}

SessionPcs == {sessions[i].pc : i \in DOMAIN sessions}

\* C1: the label the camera thread resolves comes from the recognizer that
\* was trained together with the label map it is looked up in.
C1_LookupInPairedMap ==
    cam.pc \in {"check", "spawn"} => cam.lm = LabelMapOf(cam.rec)

\* C2: two submission attempts for the same employee id are never started by
\* recognitions whose timestamps lie within RECOGNITION_INTERVAL of each
\* other, and a started attempt posts at most once.
C2_AtMostOnePerWindow ==
    /\ \A i, j \in DOMAIN workers :
          i < j /\ workers[i].emp = workers[j].emp
             => Abs(workers[j].t - workers[i].t) > RECOGNITION_INTERVAL
    /\ \A i \in DOMAIN workers : workers[i].posts <= 1

\* A recognition inside the window was not dispatched while the submission
\* started by the earlier recognition was still under way.
C2_Witness ==
    /\ Handled /\ cam.verdict = "cooldown" /\ cam.had
    /\ cam.t - cam.prev <= RECOGNITION_INTERVAL
    /\ \E i \in DOMAIN workers :
          /\ workers[i].emp = cam.emp /\ workers[i].t = cam.prev
          /\ workers[i].pc # "done"

\* C3: a recognition more than RECOGNITION_INTERVAL after the last dispatch
\* of its id starts exactly one submission attempt, and every attempt that
\* has ended made exactly one POST, whatever the earlier outcomes.
C3_ExactlyOneAfterWindow ==
    /\ Handled /\ cam.conf < ConfThreshold /\ cam.had
          /\ cam.t - cam.prev > RECOGNITION_INTERVAL
          => Cardinality(WorkersFor(cam.emp, cam.t)) = 1
    /\ \A i \in DOMAIN workers :
          workers[i].posts = IF workers[i].pc = "done" THEN 1 ELSE 0

\* After a failed submission for an id, a recognition after the window has
\* started a new one.
C3_Witness ==
    /\ Handled /\ cam.verdict = "dispatch" /\ cam.had
    /\ \E i, j \in DOMAIN workers :
          /\ workers[i].emp = cam.emp /\ workers[i].t = cam.prev
          /\ workers[i].outcome = "500"
          /\ workers[j].emp = cam.emp /\ workers[j].t = cam.t

\* should_dispatch of the specification: no entry, or the window has passed.
ShouldDispatch(had, prev, t) == ~had \/ t - prev > RECOGNITION_INTERVAL

\* C4: the dispatch decision equals should_dispatch(employee_id, now).
C4_DecisionIsShouldDispatch ==
    cam.verdict \in {"dispatch", "cooldown"}
       => (cam.verdict = "dispatch" <=> ShouldDispatch(cam.had, cam.prev, cam.t))

\* C5: whenever a submission thread has been started, or is about to be, the
\* table already holds the time of its recognition (or a later one).
C5_TableWrittenBeforeLaunch ==
    /\ \A i \in DOMAIN workers :
          /\ workers[i].emp \in DOMAIN last_seen_time
          /\ last_seen_time[workers[i].emp] >= workers[i].t
    /\ cam.pc = "spawn"
          => /\ cam.emp \in DOMAIN last_seen_time
             /\ last_seen_time[cam.emp] = cam.t

\* A second thread for an id has just been started and the table holds the
\* time of its recognition, not the previous one.
C5_Witness ==
    /\ Handled /\ cam.verdict = "dispatch" /\ cam.had
    /\ \E i \in DOMAIN workers :
          /\ workers[i].emp = cam.emp /\ workers[i].t = cam.t
          /\ workers[i].pc = "attendance"
          /\ last_seen_time[cam.emp] = cam.t
          /\ cam.prev < cam.t

\* C6: the table changes only in the camera thread's positive decision,
\* which writes the entry of the recognised id; no step removes an entry,
\* and no step of a worker changes the table.
C6_TableOnlyByDecision ==
    [][/\ DOMAIN last_seen_time \subseteq DOMAIN last_seen_time'
       /\ last_seen_time' # last_seen_time
             => /\ cam.pc = "check" /\ cam'.pc = "spawn"
                /\ workers' = workers
                /\ last_seen_time' = DictSet(last_seen_time, cam.emp, cam.t)
      ]_vars

\* A submission has failed and the entry of its id is still the time of its
\* recognition.
C6_Witness ==
    \E i \in DOMAIN workers :
       /\ workers[i].pc = "done"
       /\ workers[i].outcome \in {"500", "timeout", "connection_error"}
       /\ workers[i].emp \in DOMAIN last_seen_time
       /\ last_seen_time[workers[i].emp] = workers[i].t

\* C7: when the camera thread reaches the put of line 422 the slot has room,
\* so the put returns at once.
C7_PutNeverBlocks == cam.pc = "put" => Len(frame_queue) < QueueMaxSize

\* The camera thread is at the put after a consumer emptied the slot between
\* the emptiness test and get_nowait, while a session drains the slot.
C7_Witness ==
    /\ cam.pc = "put" /\ cam.caught
    /\ SessionPcs \cap {"drain", "drain_get"} # {}

\* C8: the display refresh is never at the take of line 432 with the slot
\* empty.
C8_TakeNeverWaits == ~(ui_pc = "get" /\ frame_queue = <<>>)

\* C9: the slot holds at most one frame; between two iterations of the camera
\* thread it holds nothing or the frame produced last; and the frame in the
\* slot is newer than every frame a consumer has taken.
C9_LatestFrameOnly ==
    /\ Len(frame_queue) <= 1
    /\ cam.pc = "loop" /\ frame_queue # <<>> => Head(frame_queue) = frames_read
    /\ \A k \in DOMAIN frame_queue : frame_queue[k] > taken

\* A frame was discarded unconsumed: the slot holds the newest frame and the
\* consumers have skipped at least one frame.
C9_Witness ==
    /\ cam.pc = "loop" /\ frame_queue = <<frames_read>>
    /\ taken >= 1 /\ taken + 1 < frames_read

C11_WrongCodeChangesNothing ==
    /\ [][verified' # verified /\ ~verified'.ok
             => UNCHANGED <<otp_storage, pending_names, user_emails,
                            known_faces, recognizer, label_map, sessions,
                            popups, email_popups, mailers, workers>>]_vars
    /\ [](\A j \in DOMAIN popups :
             /\ popups[j].emp \in DOMAIN otp_storage
             /\ OtpMatches(otp_storage, popups[j].emp,
                           otp_storage[popups[j].emp]))

\* Right after a rejected code, the stored code was accepted for the same
\* id and started the capture session.
C11_Witness ==
    /\ verified.pressed /\ verified.ok /\ verified.after_wrong
    /\ \E i \in DOMAIN sessions :
          sessions[i].updating /\ sessions[i].emp = verified.emp

\* C12: a capture session in update mode is started only by the verify step
\* whose text matched the code stored for the session's id, after a code was
\* issued for that id; and for an id without a stored code every text,
\* the empty one included, is rejected.
C12_UpdateOnlyAfterMatch ==
    /\ [][sessions' # sessions
             => /\ Len(sessions') = Len(sessions) + 1
                /\ SubSeq(sessions', 1, Len(sessions)) = sessions
                /\ LET s == sessions'[Len(sessions')] IN
                   s.updating
                      => /\ verified'.pressed /\ verified'.ok
                         /\ verified'.emp = s.emp
                         /\ s.emp \in DOMAIN otp_storage
                         /\ Strip(verified'.text) = otp_storage[s.emp]
                         /\ \E k \in DOMAIN issued : issued[k].emp = s.emp
                         /\ Len(popups') = Len(popups) - 1]_vars
    /\ [](\A e \in EmpIds \ DOMAIN otp_storage, txt \in OtpTexts :
             ~OtpMatches(otp_storage, e, txt))

\* An update session was started for one id while the other id has no
\* stored code.
C12_Witness ==
    /\ \E i \in DOMAIN sessions :
          sessions[i].updating /\ sessions[i].emp \in DOMAIN otp_storage
    /\ EmpIds \ DOMAIN otp_storage # {}

HasSamples(emp) == \E f \in known_faces : f.emp = emp

\* C13: a capture session for an id that has samples in the identity store
\* is a session started by a successful verification for that id, or follows
\* one.
C13_ReturningUserGated ==
    \A i \in DOMAIN sessions :
       HasSamples(sessions[i].emp)
          => \E j \in 1..i : /\ sessions[j].updating
                             /\ sessions[j].emp = sessions[i].emp

\* The inputs the claim calls invalid.
InvalidEmail(email) == email = <<>> \/ ~(\E k \in DOMAIN email : email[k] = "@")

\* C18: a submit that is turned down changes nothing: the contact directory,
\* the stored codes and bound names, the identity store, the model, the
\* sessions, the mail threads and the open prompts stay as they were; and
\* every registration with an empty name, id or email or an email without
\* "@", and every email submit with such an email, is turned down.
C18_InvalidInputChangesNothing ==
    /\ [][rejected' # rejected
             => UNCHANGED <<user_emails, otp_storage, pending_names, issued,
                            known_faces, recognizer, label_map, sessions,
                            mailers, workers, email_popups, popups>>]_vars
    /\ [](\A n \in Names \cup {""}, e \in EmpIds \cup {""}, txt \in EmailTexts :
             /\ n = "" \/ e = "" \/ InvalidEmail(Strip(txt))
                   => ~RegisterValid(n, e, Strip(txt))
             /\ InvalidEmail(Strip(txt)) => ~EmailValid(Strip(txt)))

\* With an email prompt open and a code pending, a registration with a name,
\* an id and an email without "@" was turned down.
C18_Witness ==
    /\ rejected.handler = "register"
    /\ rejected.name # "" /\ rejected.emp # ""
    /\ rejected.email # <<>> /\ InvalidEmail(rejected.email)
    /\ email_popups # {} /\ otp_storage # <<>>

\* C19: training over no samples returns an untrained recognizer and an
\* empty label map; a face predicted on an untrained recognizer gets
\* (-1, 1000) and is classified unknown, with no table entry written and no
\* thread started; while the store holds no sample the installed recognizer
\* is untrained and the table and the thread list are empty; and the camera
\* thread ends only by the stop signal, so it goes on to publish the frame.
C19_UntrainedIsUnknown ==
    /\ [][cam.pc = "lookup" /\ cam.rec = <<>> /\ cam' # cam
             => /\ cam'.verdict = "unknown"
                /\ cam'.pc \in {"predict", "qempty"}
                /\ last_seen_time' = last_seen_time
                /\ workers' = workers]_vars
    /\ [](/\ TrainRecognizer({}) = << <<>>, <<>> >>
          /\ cam.pc = "lookup" /\ cam.rec = <<>>
                => cam.label = -1 /\ cam.conf = 1000
          /\ cam.pc \in {"check", "spawn"} => cam.rec # <<>>
          /\ known_faces = {}
                => /\ recognizer = <<>> /\ label_map = <<>>
                   /\ last_seen_time = <<>> /\ workers = <<>>
          /\ cam.pc = "exit" => stop)

\* A session retrained over no samples and installed the result, and the
\* camera thread, on its second frame or later, classified a face as unknown
\* after the failed predict and is about to publish the frame.
C19_Witness ==
    /\ cam.pc = "put" /\ cam.verdict = "unknown" /\ cam.conf = 1000
    /\ cam.frame >= 2
    /\ known_faces = {} /\ recognizer = <<>> /\ label_map = <<>>
    /\ \E i \in DOMAIN sessions : sessions[i].pc = "registered"

\* C20: a frame on which the detector raised has no face: the camera thread
\* goes on to the hand-off, handles no face and decides no dispatch for that
\* frame, puts that frame into the slot, and returns to the loop head in
\* the state it is in after any other frame.
C20_DetectorErrorIsNoFace ==
    /\ [][cam.err /\ cam' # cam
             => /\ last_seen_time' = last_seen_time
                /\ Len(workers') = Len(workers)
                /\ cam.pc = "put"
                      => frame_queue' = <<cam.frame>> /\ cam' = CamIdle]_vars
    /\ [](/\ cam.err => /\ cam.faces = 0 /\ cam.verdict = "none"
                        /\ cam.pc \in {"qempty", "qget", "put"}
          /\ cam.pc = "loop" => cam = CamIdle
          /\ cam.pc = "exit" => stop /\ ~cam.err)

\* The detector raised on the second frame or later, after a dispatch, and
\* the camera thread is about to publish that frame.
C20_Witness ==
    /\ cam.err /\ cam.pc = "put" /\ cam.frame >= 2
    /\ workers # <<>>
    /\ ~stop

\* C14: no two samples of one employee id carry the same sequence number,
\* and the file a capturing session writes next does not exist yet.
C14_SequenceNeverReused ==
    /\ \A f, g \in known_faces :
          f.emp = g.emp /\ f.seq = g.seq => f = g
    /\ \A i \in DOMAIN sessions :
          sessions[i].pc \in {"loop", "drain", "drain_get", "detect"}
             => File(sessions[i].name, sessions[i].emp,
                     sessions[i].start_index + sessions[i].collected)
                   \notin known_faces

\* The states of a session: 0 IDLE, 1 COUNTDOWN, 2 CAPTURING, 3 RETRAINING,
\* 4 DONE.
Phase(pc) ==
    CASE pc \in {"resolve", "glob", "failed"} -> 0
      [] pc = "countdown" -> 1
      [] pc \in {"loop", "drain", "drain_get", "detect", "crashed"} -> 2
      [] pc \in {"train", "install_rec", "install_map"} -> 3
      [] pc \in {"notify", "registered", "updated"} -> 4

\* The samples session i has written.
WrittenBy(i) ==
    {File(sessions[i].name, sessions[i].emp, sessions[i].start_index + k) :
        k \in 0..(sessions[i].collected - 1)}

\* C15: a session stays in its state or moves to the next one; the sample
\* files change only by a session in CAPTURING writing one sample; RETRAINING
\* is entered with the target reached or the stop signal set; the session
\* stores its recognizer and then its label map before it enters DONE, both
\* trained on the samples it wrote; and DONE reports "registered" for a
\* registration and "updated" for an update.
C15_LinearPhases ==
    /\ [][/\ \A i \in DOMAIN sessions :
               LET s == sessions[i]
                   t == sessions'[i]
               IN  /\ Phase(t.pc) \in {Phase(s.pc), Phase(s.pc) + 1}
                   /\ Phase(s.pc) = 2 /\ Phase(t.pc) = 3
                         => s.collected = s.count_target \/ stop
                   /\ s.pc = "install_rec" /\ t.pc # s.pc
                         => t.pc = "install_map" /\ recognizer' = s.rec
                   /\ Phase(s.pc) = 3 /\ Phase(t.pc) = 4
                         => s.pc = "install_map" /\ label_map' = s.lm
                   /\ Phase(s.pc) # 2 => t.collected = s.collected
                   /\ t.pc = "registered"
                         => ~s.updating /\ s.pc \in {"notify", "registered"}
                   /\ t.pc = "updated"
                         => s.updating /\ s.pc \in {"notify", "updated"}
          /\ known_faces' # known_faces
                => \E i \in DOMAIN sessions :
                      /\ sessions[i].pc = "detect"
                      /\ sessions'[i].collected = sessions[i].collected + 1
                      /\ known_faces' = known_faces \cup WrittenBy(i)'
         ]_vars
    /\ [](\A i \in DOMAIN sessions :
             LET s == sessions[i] IN
             /\ Phase(s.pc) <= 1 => s.collected = 0
             /\ s.pc \in {"install_rec", "install_map"} \/ Phase(s.pc) = 4
                   => /\ WrittenBy(i) \subseteq {s.rec[k] : k \in DOMAIN s.rec}
                      /\ s.lm = LabelMapOf(s.rec))

\* An update session wrote a sample, installed a model trained on it and
\* reported "updated".
C15_Witness ==
    \E i \in DOMAIN sessions :
       /\ sessions[i].pc = "updated"
       /\ sessions[i].collected >= 1
       /\ WrittenBy(i) \subseteq {recognizer[k] : k \in DOMAIN recognizer}
       /\ label_map = LabelMapOf(recognizer)

\* C16: a session never dies while capturing.
C16_NeverDiesCapturing ==
    \A i \in DOMAIN sessions : sessions[i].pc # "crashed"

\* C17: once every session has reported completion, the installed recognizer
\* and label map are the ones trained on the samples in the store.
C17_InstalledCoversStore ==
    /\ sessions # <<>>
    /\ \A i \in DOMAIN sessions : sessions[i].pc \in {"registered", "updated"}
    => /\ recognizer = TrainedOn(known_faces)
       /\ label_map = LabelMapOf(recognizer)

\* The statuses the claim counts as success: 2xx or redirect-class.
ClaimedSuccess(o) ==
    \/ 200 <= StatusCode(o) /\ StatusCode(o) <= 299
    \/ 300 <= StatusCode(o) /\ StatusCode(o) <= 399

C22_NetworkOnlyOnWorkers ==
    /\ ui_pc # "resend"
    /\ \A k \in DOMAIN issued :
          \E i \in DOMAIN mailers :
             mailers[i].emp = issued[k].emp /\ mailers[i].otp = issued[k].code

\* C23: the label-map entry retraining builds from a sample's file name is
\* the (display name, employee id) the session wrote into that name.
C23_NamesRoundTrip ==
    naming.pc = "trained" => naming.entry = <<naming.name, naming.emp>>

\* user_emails.get(emp) is an address (the test of line 555).
HasStoredEmail(ue, emp) == emp \in DOMAIN ue /\ ue[emp] # <<>>

\* C24: an e-mail prompt opens only for an id without a stored address, and
\* opening it issues no code; a code is issued (other than by a resend)
\* only for an id with a stored, valid address, with a mail thread started
\* for that id, that code and that address, either with no prompt and the
\* address already stored or by the submit that closes the prompt of that
\* id; a prompt closes only by a submit that stores a valid address for the
\* prompt's id and issues the code for that same id; and a submit that is
\* turned down issues nothing.
C24_DirectoryDecides ==
    [][/\ email_popups' # email_popups /\ email_popups \subseteq email_popups'
             => /\ issued' = issued /\ mailers' = mailers
                /\ user_emails' = user_emails
                /\ \A p \in email_popups' \ email_popups :
                      ~HasStoredEmail(user_emails, p.emp)
       /\ issued' # issued /\ ui_pc' = "idle"
             => LET c == issued'[Len(issued')]
                    m == mailers'[Len(mailers')]
                IN  /\ issued' = Append(issued, c)
                    /\ Len(mailers') = Len(mailers) + 1
                    /\ m.emp = c.emp /\ m.otp = c.code
                    /\ HasStoredEmail(user_emails', c.emp)
                    /\ m.email = user_emails'[c.emp]
                    /\ EmailValid(m.email)
                    /\ otp_storage'[c.emp] = c.code
                    /\ \/ /\ email_popups' = email_popups
                          /\ user_emails' = user_emails
                       \/ \E p \in email_popups :
                             /\ p.emp = c.emp
                             /\ email_popups' = email_popups \ {p}
       /\ email_popups' # email_popups /\ email_popups' \subseteq email_popups
             => \E p \in email_popups :
                   /\ email_popups' = email_popups \ {p}
                   /\ HasStoredEmail(user_emails', p.emp)
                   /\ issued' = Append(issued, issued'[Len(issued')])
                   /\ issued'[Len(issued')].emp = p.emp
       /\ rejected' # rejected => issued' = issued /\ mailers' = mailers
      ]_vars

\* For an id that had no address, a submit without "@" was turned down, a
\* valid address was then stored and a code was issued for that id and
\* mailed to that address; a code was also issued at once for the id whose
\* address was stored from the start.
C24_Witness ==
    /\ rejected.handler = "email" /\ rejected.emp = "E2"
    /\ rejected.email # <<>>
    /\ email_popups = {}
    /\ \E i, j \in DOMAIN mailers :
          /\ mailers[i].emp = "E2" /\ mailers[i].email = user_emails["E2"]
          /\ mailers[j].emp = "E1" /\ mailers[j].email = user_emails["E1"]

\* C25: on_stop sets the stop signal first, then waits for the camera
\* thread, and releases the capture only after that wait has returned; the
\* wait can return in every state, whatever the camera thread, the
\* attendance workers and the mail threads are doing.
C25_ShutdownOrder ==
    /\ [][/\ ~stop /\ stop' => ui_pc' = "join" /\ capture_open'
          /\ ui_pc # "release" /\ ui_pc' = "release"
                => ui_pc = "join" /\ stop /\ capture_open'
          /\ capture_open /\ ~capture_open'
                => ui_pc = "release" /\ ui_pc' = "stopped" /\ stop
         ]_vars
    /\ [](/\ ui_pc \in {"join", "release", "stopped"} <=> stop
          /\ ~capture_open <=> ui_pc = "stopped"
          /\ ui_pc = "join" => ENABLED OnStopJoin)

\* The capture was released after a wait that ended by its timeout: the
\* camera thread has not ended, and an attendance worker is still running.
C25_Witness ==
    /\ ui_pc = "stopped" /\ ~capture_open /\ stop
    /\ cam.pc \notin {"exit", "loop"}
    /\ \E i \in DOMAIN workers : workers[i].pc = "submitter"

\* The session is inside the capture loop of lines 695-734.
InCaptureLoop(i) ==
    /\ i \in DOMAIN sessions
    /\ sessions[i].pc \in {"loop", "drain", "drain_get", "detect"}

\* C26: once the stop signal is set the camera thread ends, and a session
\* that is inside its capture loop leaves it.
C26_StopEndsTheLoops ==
    /\ stop ~> cam.pc = "exit"
    /\ \A i \in 1..MaxSessions : (stop /\ InCaptureLoop(i)) ~> ~InCaptureLoop(i)

\* The camera thread has ended after the stop signal, and a session that
\* the signal interrupted short of its target has gone on to retrain.
C26_Witness ==
    /\ stop /\ cam.pc = "exit"
    /\ \E i \in DOMAIN sessions :
          /\ sessions[i].pc \in {"train", "install_rec", "install_map",
                                  "notify", "registered"}
          /\ sessions[i].collected >= 1
          /\ sessions[i].collected < sessions[i].count_target

\* The target the trigger of a session carries.
TargetOf(s) == IF s.updating THEN 5 ELSE 10

Reported(i) == sessions[i].pc \in {"registered", "updated"}

C28_PublishedNeverMutated ==
    [][/\ recognizer' # recognizer
             => /\ label_map' = label_map
                /\ \E i \in DOMAIN sessions :
                      /\ sessions[i].pc = "install_rec"
                      /\ sessions'[i].pc = "install_map"
                      /\ recognizer' = sessions[i].rec
       /\ label_map' # label_map
             => /\ recognizer' = recognizer
                /\ \E i \in DOMAIN sessions :
                      /\ sessions[i].pc = "install_map"
                      /\ sessions'[i].pc = "notify"
                      /\ label_map' = sessions[i].lm
       /\ \A i \in DOMAIN sessions :
             /\ sessions[i].pc = "train" /\ sessions'[i].pc # "train"
                   => /\ sessions'[i].rec = TrainedOn(known_faces)
                      /\ sessions'[i].lm = LabelMapOf(sessions'[i].rec)
                      /\ recognizer' = recognizer /\ label_map' = label_map
             /\ sessions[i].pc \in {"install_rec", "install_map"}
                   => /\ sessions'[i].rec = sessions[i].rec
                      /\ sessions'[i].lm = sessions[i].lm
       /\ sessions' # sessions => cam' = cam
      ]_vars

\* The camera thread is between predict and the label lookup with the
\* recognizer of the initial store, while a session has stored a recognizer
\* trained on more samples.
C28_Witness ==
    /\ cam.pc = "lookup" /\ cam.rec = TrainedOn(InitialStore)
    /\ Len(recognizer) > Len(cam.rec)
    /\ \E i \in DOMAIN sessions :
          sessions[i].pc \in {"install_map", "notify"}

\* No entry of the label map carries the id.
NoIdentity(lm, emp) == \A k \in DOMAIN lm : lm[k][2] # emp

\* C29: an update session that starts without a bound name, for an id that
\* no entry of the current label map carries, ends at once with the error
\* notification; a session that ended so has not started the countdown, has
\* written no sample and has trained nothing, and it takes no further step;
\* and no step of such a session changes the store or the published model.
C29_UnknownIdEndsEarly ==
    /\ [][\A i \in DOMAIN sessions :
             /\ /\ sessions[i].pc = "resolve" /\ sessions'[i].pc # "resolve"
                /\ sessions[i].updating /\ sessions[i].name = NoName
                /\ NoIdentity(label_map, sessions[i].emp)
                => /\ sessions'[i].pc = "failed"
                   /\ UNCHANGED <<known_faces, recognizer, label_map>>
             /\ sessions[i].pc = "failed" => sessions'[i] = sessions[i]
         ]_vars
    /\ [](\A i \in DOMAIN sessions :
             sessions[i].pc = "failed"
                => /\ sessions[i].updating
                   /\ sessions[i].name = NoName
                   /\ sessions[i].ticks = 0 /\ sessions[i].count_target = 0
                   /\ sessions[i].collected = 0
                   /\ sessions[i].rec = <<>> /\ sessions[i].lm = <<>>)

\* An update session for an id without an identity has ended with the
\* error, and the store and the published model are still empty.
C29_Witness ==
    /\ \E i \in DOMAIN sessions :
          /\ sessions[i].pc = "failed" /\ sessions[i].updating
          /\ NoIdentity(label_map, sessions[i].emp)
    /\ known_faces = {} /\ recognizer = <<>> /\ label_map = <<>>
    /\ verified.ok


\* The identity of a started submission or of a cooldown entry is one that
\* has reference samples in the identity store.
Enrolled(name, emp) ==
    \E f \in known_faces : f.name = name /\ f.emp = emp

\* C30: every attendance submission that was started carries the name and
\* the non-empty id of an identity with samples in the identity store, and
\* the cooldown table has no entry for the empty id of the placeholder
\* ("unknown", ""), also while a retrain is being installed.
C30_NoPlaceholderSubmission ==
    /\ \A i \in DOMAIN workers :
          /\ workers[i].emp # ""
          /\ workers[i].name # "unknown"
          /\ Enrolled(workers[i].name, workers[i].emp)
    /\ "" \notin DOMAIN last_seen_time


\* The sample file that the capture step of session i writes in this step.
Writes(i, f) ==
    /\ sessions[i].pc = "detect"
    /\ sessions'[i].collected = sessions[i].collected + 1
    /\ f = File(sessions[i].name, sessions[i].emp,
                sessions[i].start_index + sessions[i].collected)

\* C31: every sample file is written by exactly one capture step: a capture
\* step of a session never writes a file that is already in the store, so
\* two sessions for the same name and id that overlap never write the same
\* file and none replaces a capture of the other.
C31_NoSampleWrittenTwice ==
    [][\A i \in DOMAIN sessions, f \in known_faces' :
          Writes(i, f) => f \notin known_faces]_vars

====
